---- MODULE Spec2Model ----
(***************************************************************************)
(* AudioGenerator (src/src/audio_generator.py): the per-segment loop of    *)
(* generate_audio_from_transcript and the track assembly of                *)
(* _combine_audio_segments; _time_to_milliseconds, the fitting of a clip   *)
(* (_adjust_audio_speed), process_video (src/main.py) and VoiceSelector    *)
(* (src/config/voices.py) each under a specification of its own.           *)
(* Durations are whole milliseconds, the unit of pydub's len().            *)
(***************************************************************************)
EXTENDS Integers, Sequences, FiniteSets, TLC

VARIABLES pc, total_segments, i, transcript, errors, generated_segments,
          files, pauses, k, combined_audio, last_end_time,
          combine_exit, result

vars == <<pc, total_segments, i, transcript, errors, generated_segments,
          files, pauses, k, combined_audio, last_end_time,
          combine_exit, result>>

\* _time_to_milliseconds called on its own: the text, the fields it was
\* written from, and what the call returned
VARIABLES tpc, time_fields, time_text, total_ms

timevars == <<tpc, time_fields, time_text, total_ms>>

\* _generate_segment_audio from the synthesized audio on, and
\* _adjust_audio_speed: the frames synthesized, the segment's
\* duration_seconds, what the file system lets through, the two wav files
\* (-1 frames: no such file), what each call of _adjust_audio_speed
\* returned, and the segment's result
VARIABLES fpc, audio_frames, target_duration, disk, raw_frames,
          adjusted_frames, adjust_returns, segment_result

fitvars == <<fpc, audio_frames, target_duration, disk, raw_frames,
             adjusted_frames, adjust_returns, segment_result>>

\* process_video: where it stands, what each stage will meet, the stage
\* results recorded in results['steps'], the stage whose work failed first,
\* and the dict returned
VARIABLES ppc, stage_env, steps, failed_first, pipeline_result

pipevars == <<ppc, stage_env, steps, failed_first, pipeline_result>>

\* VoiceSelector: its speaker_voice_mapping, where get_speaker_voices
\* stands in which speakers_info, the calls made so far, and the last call
\* of assign_voice_to_speaker with what it gave back
VARIABLES vpc, speaker_voice_mapping, speakers_info, speaker_index,
          calls, last_assign

voicevars == <<vpc, speaker_voice_mapping, speakers_info, speaker_index,
               calls, last_assign>>

\* _combine_audio_segments called on a list of its caller's making: the
\* list as it was passed
VARIABLES segments_arg

argvars == <<segments_arg>>

\* the loop of generate_audio_from_transcript over a long transcript, the
\* segments' content left out: the segments a pause was taken before, and
\* the segments and speech requests since the last pause
VARIABLES paused_before, since_pause, requests_since_pause

pacevars == <<paused_before, since_pause, requests_since_pause>>

\* _generate_segment_audio up to the speech request: the segment's
\* speaker_id, the voice asked for, and whether a clip came of it
VARIABLES voiced_segment

segvars == <<voiced_segment>>

\* the components beside the generator's session, and what each action of
\* a component leaves alone
others == <<timevars, fitvars, pipevars, voicevars, argvars, pacevars,
            segvars>>
allvars == <<vars, others>>
exceptTime == <<vars, fitvars, pipevars, voicevars, argvars, pacevars,
                segvars>>
exceptFit == <<vars, timevars, pipevars, voicevars, argvars, pacevars,
               segvars>>
exceptPipe == <<vars, timevars, fitvars, voicevars, argvars, pacevars,
                segvars>>
exceptVoice == <<vars, timevars, fitvars, pipevars, argvars, pacevars,
                 segvars>>
exceptSeg == <<vars, timevars, fitvars, pipevars, argvars, pacevars>>

NoSegment == [speaker |-> "", voice_name |-> "", success |-> FALSE]

SegIdle == voiced_segment = NoSegment

PaceIdle ==
    /\ paused_before = {}
    /\ since_pause = 0
    /\ requests_since_pause = 0

ArgIdle == segments_arg = <<>>

TimeIdle ==
    /\ tpc = "idle"
    /\ time_fields = <<>>
    /\ time_text = <<>>
    /\ total_ms = 0

NoFile == -1

FitIdle ==
    /\ fpc = "idle"
    /\ audio_frames = 0
    /\ target_duration = [num |-> 0, den |-> 1]
    /\ disk = [save |-> TRUE, load |-> TRUE, write |-> TRUE,
               verify |-> TRUE]
    /\ raw_frames = NoFile
    /\ adjusted_frames = NoFile
    /\ adjust_returns = <<>>
    /\ segment_result = [success |-> FALSE]

PipeIdle ==
    /\ ppc = "idle"
    /\ stage_env = [video |-> "ok", asr |-> "ok", audio |-> "exported",
                    ffmpeg_available |-> TRUE, ffmpeg |-> "ok"]
    /\ steps = <<>>
    /\ failed_first = "none"
    /\ pipeline_result = [success |-> FALSE, returned |-> FALSE]

\* no entry: a function of empty domain
NoMapping == [s \in {} |-> ""]

NoAssign == [speaker_id |-> "", returned |-> "no call"]

VoiceIdle ==
    /\ vpc = "idle"
    /\ speaker_voice_mapping = NoMapping
    /\ speakers_info = <<>>
    /\ speaker_index = 0
    /\ calls = 0
    /\ last_assign = NoAssign

OthersIdle ==
    /\ TimeIdle /\ FitIdle /\ PipeIdle /\ VoiceIdle /\ ArgIdle /\ PaceIdle
    /\ SegIdle

\* ------------------------------------------------------------ bounds
\* Longest transcript (number of dubbing_segments) explored.
MaxSegs == 3

\* ------------------------------------------------- program constants
MinSilenceMs == 20
FadeMs == 10
PaceEvery == 20

\* ------------------------------------------------------- time strings
\* A time string is a sequence of one-character strings.
Digits == {"0", "1", "2", "3", "4", "5", "6", "7", "8", "9"}

DigitVal(c) ==
    CASE c = "0" -> 0 [] c = "1" -> 1 [] c = "2" -> 2 [] c = "3" -> 3
      [] c = "4" -> 4 [] c = "5" -> 5 [] c = "6" -> 6 [] c = "7" -> 7
      [] c = "8" -> 8 [] c = "9" -> 9

\* str.split(':')
RECURSIVE Split(_)
Split(s) ==
    IF \A n \in 1..Len(s) : s[n] # ":" THEN <<s>>
    ELSE LET p == CHOOSE n \in 1..Len(s) :
                      s[n] = ":" /\ \A m \in 1..(n - 1) : s[m] # ":"
         IN  <<SubSeq(s, 1, p - 1)>> \o Split(SubSeq(s, p + 1, Len(s)))

RECURSIVE Ljust_Left(_, _)
\* the zeros are put in front, as str.rjust or str.zfill would
Ljust_Left(s, width) ==
    IF Len(s) >= width THEN s ELSE Ljust_Left(<<"0">> \o s, width)

\* str.ljust(3, '0')
RECURSIVE Ljust(_, _)
Ljust(s, width) == IF Len(s) >= width THEN s ELSE Ljust(s \o <<"0">>, width)

\* int(s) succeeds on a non-empty run of decimal digits
IsInt(s) == Len(s) > 0 /\ \A n \in 1..Len(s) : s[n] \in Digits

RECURSIVE IntOf(_)
IntOf(s) ==
    IF Len(s) = 0 THEN 0
    ELSE 10 * IntOf(SubSeq(s, 1, Len(s) - 1)) + DigitVal(s[Len(s)])

\* _time_to_milliseconds: any exception inside is caught and gives 0
time_to_milliseconds(time_str) ==
    LET parts == Split(time_str) IN
    IF Len(parts) = 4 THEN
        IF IsInt(parts[1]) /\ IsInt(parts[2]) /\ IsInt(parts[3])
              /\ IsInt(Ljust(parts[4], 3))
        THEN (IntOf(parts[1]) * 3600 + IntOf(parts[2]) * 60 + IntOf(parts[3])) * 1000
                 + IntOf(Ljust(parts[4], 3))
        ELSE 0
    ELSE IF Len(parts) = 3 THEN
        IF IsInt(parts[1]) /\ IsInt(parts[2]) /\ IsInt(Ljust(parts[3], 3))
        THEN (0 * 3600 + IntOf(parts[1]) * 60 + IntOf(parts[2])) * 1000
                 + IntOf(Ljust(parts[3], 3))
        ELSE 0
    ELSE 0

\* ------------------------------------------------------------- inputs
\* '00:00:00.000', the default _generate_segment_audio uses for a segment
\* without start_time; its last field is not a number.
DefaultStartTime ==
    <<"0", "0", ":", "0", "0", ":", "0", "0", ".", "0", "0", "0">>

\* start_time texts of the transcript: 0, 1020, 1021, 2000, 2500 ms and the
\* default.
StartTimes ==
    { <<"0", "0", ":", "0", "0", ":", "0", "0", "0">>,
      <<"0", "0", ":", "0", "1", ":", "0", "2">>,
      <<"0", "0", ":", "0", "1", ":", "0", "2", "1">>,
      <<"0", "0", ":", "0", "0", ":", "0", "2", ":", "0">>,
      <<"0", "0", ":", "0", "2", ":", "5">>,
      DefaultStartTime }

\* duration_seconds of a segment, in milliseconds (0: no fitting asked)
TargetDurations == {0, 1000}

\* length of the clip the speech service returns, in milliseconds
RawDurations == {400}

Segments ==
    [start_time : StartTimes, duration_ms : TargetDurations, has_text : BOOLEAN]

\* ------------------------------------------------------------ helpers
RawFile(idx) == [idx |-> idx, kind |-> "raw"]
AdjustedFile(idx) == [idx |-> idx, kind |-> "adjusted"]

\* the wav files written so far: [name, ms]
Exists(name) == \E f \in files : f.name = name
LengthOf(name) == (CHOOSE f \in files : f.name = name).ms

RECURSIVE TrackMs(_)
\* len(combined_audio)
TrackMs(track) ==
    IF Len(track) = 0 THEN 0
    ELSE TrackMs(SubSeq(track, 1, Len(track) - 1)) + track[Len(track)].ms

\* list.sort(key=segment_index): stable insertion sort
RECURSIVE Insert(_, _)
Insert(sorted, seg) ==
    IF Len(sorted) = 0 THEN <<seg>>
    ELSE IF sorted[Len(sorted)].segment_index <= seg.segment_index
         THEN Append(sorted, seg)
         ELSE Append(Insert(SubSeq(sorted, 1, Len(sorted) - 1), seg),
                     sorted[Len(sorted)])

\* the list is left in the order it came in
SortByIndex_AsGiven(segs) == segs

RECURSIVE SortByIndex(_)
SortByIndex(segs) ==
    IF Len(segs) = 0 THEN <<>>
    ELSE Insert(SortByIndex(SubSeq(segs, 1, Len(segs) - 1)), segs[Len(segs)])

NoResult ==
    [returned |-> FALSE, success |-> FALSE, final_audio_path |-> "",
     total_segments |-> 0]

\* the dictionary generate_audio_from_transcript returns on its normal path
SuccessResult(path, segs) ==
    [returned |-> TRUE, success |-> TRUE, final_audio_path |-> path,
     total_segments |-> Len(segs)]

\* ... and from its except clause
FailureResult ==
    [returned |-> TRUE, success |-> FALSE, final_audio_path |-> "",
     total_segments |-> 0]

FinalAudioFile == "dubbed_audio.wav"

\* what _combine_audio_segments returns for an empty list, and from its
\* except clause
EmptyInputReturn == ""
CombineErrorReturn == ""

\* --------------------------------------------------------------- Init
Init ==
    /\ pc = "setup"
    /\ total_segments \in 0..MaxSegs
    /\ i = 0
    /\ transcript = <<>>
    /\ errors = <<>>
    /\ generated_segments = <<>>
    /\ files = {}
    /\ pauses = 0
    /\ k = 0
    /\ combined_audio = <<>>
    /\ last_end_time = 0
    /\ combine_exit = "none"
    /\ result = NoResult
    /\ OthersIdle

\* no session of the generator is running
GeneratorIdle ==
    /\ pc = "idle"
    /\ total_segments = 0
    /\ i = 0
    /\ transcript = <<>>
    /\ errors = <<>>
    /\ generated_segments = <<>>
    /\ files = {}
    /\ pauses = 0
    /\ k = 0
    /\ combined_audio = <<>>
    /\ last_end_time = 0
    /\ combine_exit = "none"
    /\ result = NoResult

\* ------------------------------------------- generate_audio_from_transcript
\* session directory, speaker maps and voice assignments; an exception here
\* reaches the except clause of generate_audio_from_transcript
Setup ==
    /\ pc = "setup"
    /\ \E ok \in BOOLEAN :
         IF ok THEN pc' = "generate" /\ result' = result
         ELSE pc' = "done" /\ result' = FailureResult
    /\ UNCHANGED <<total_segments, i, transcript, errors, generated_segments,
                   files, pauses, k, combined_audio, last_end_time,
                   combine_exit>>
    /\ UNCHANGED others

\* a pause before the first segment too
PauseBefore_First(idx) == idx % PaceEvery = 0

\* the pause before segment idx of the loop
PauseBefore(idx) == idx > 0 /\ idx % PaceEvery = 0

\* the segment_result of a successful _generate_segment_audio
SegmentResult(idx, segment, final) ==
    [segment_index |-> idx, start_time |-> segment.start_time,
     target_duration |-> segment.duration_ms, final_audio_file |-> final]

\* one iteration of the loop: _generate_segment_audio on segment i. Its
\* failure returns (empty text, no audio from the speech service) leave
\* generated_segments as it is, as its except clause does.
GenerateSegment ==
    /\ pc = "generate"
    /\ i < total_segments
    /\ \E segment \in Segments, tts_ms \in RawDurations \cup {0},
          saved \in BOOLEAN, fitted \in BOOLEAN :
         /\ transcript' = Append(transcript, segment)
         /\ IF ~segment.has_text THEN
                /\ tts_ms = 0 /\ ~saved /\ ~fitted
                /\ errors' = Append(errors, "Empty text segment")
                /\ UNCHANGED <<generated_segments, files>>
            ELSE IF tts_ms = 0 THEN
                /\ ~saved /\ ~fitted
                /\ errors' = Append(errors, "TTS generation failed")
                /\ UNCHANGED <<generated_segments, files>>
            ELSE
                \* _save_wave_file swallows a failed write; _adjust_audio_speed
                \* needs the raw file, a positive target and a working stretch
                /\ fitted => (saved /\ segment.duration_ms > 0)
                /\ errors' = Append(errors, "")
                /\ files' = files
                     \cup (IF saved THEN {[name |-> RawFile(i), ms |-> tts_ms]}
                           ELSE {})
                     \cup (IF fitted
                           THEN {[name |-> AdjustedFile(i),
                                  ms |-> segment.duration_ms]}
                           ELSE {})
                /\ generated_segments' =
                     Append(generated_segments,
                            SegmentResult(i, segment,
                                IF fitted THEN AdjustedFile(i) ELSE RawFile(i)))
    /\ pauses' = IF PauseBefore(i) THEN pauses + 1 ELSE pauses
    /\ i' = i + 1
    /\ UNCHANGED <<pc, total_segments, k, combined_audio, last_end_time,
                   combine_exit, result>>
    /\ UNCHANGED others

\* ------------------------------------------------ _combine_audio_segments
\* entry: the empty-list return, or the sort and the empty track
CombineStart ==
    /\ pc = "generate"
    /\ i = total_segments
    /\ IF Len(generated_segments) = 0 THEN
          /\ combine_exit' = "empty"
          /\ result' = SuccessResult(EmptyInputReturn, generated_segments)
          /\ pc' = "done"
          /\ UNCHANGED generated_segments
       ELSE
          /\ generated_segments' = SortByIndex(generated_segments)
          /\ pc' = "combine"
          /\ UNCHANGED <<combine_exit, result>>
    /\ k' = 0
    /\ combined_audio' = <<>>
    /\ last_end_time' = 0
    /\ UNCHANGED <<total_segments, i, transcript, errors, files, pauses>>
    /\ UNCHANGED others

Silence(ms) == [kind |-> "silence", ms |-> ms, idx |-> -1, fade |-> 0]
Clip(idx, ms) == [kind |-> "clip", ms |-> ms, idx |-> idx, fade |-> FadeMs]

\* no gap is ever filled
GapSilence_Never(start_time_ms, cursor) == <<>>

\* a gap of exactly MinSilenceMs is filled too
GapSilence_Inclusive(start_time_ms, cursor) ==
    IF start_time_ms > cursor /\ start_time_ms - cursor >= MinSilenceMs
    THEN <<Silence(start_time_ms - cursor)>>
    ELSE <<>>

\* the threshold is taken off the silence
GapSilence_Short(start_time_ms, cursor) ==
    IF start_time_ms > cursor /\ start_time_ms - cursor > MinSilenceMs
    THEN <<Silence(start_time_ms - cursor - MinSilenceMs)>>
    ELSE <<>>

\* the silence added before a clip whose slot starts at start_time_ms
GapSilence(start_time_ms, cursor) ==
    IF start_time_ms > cursor /\ start_time_ms - cursor > MinSilenceMs
    THEN <<Silence(start_time_ms - cursor)>>
    ELSE <<>>

\* the clip's own length is forgotten
NextEndTime_NoLength(start_time_ms, segment_ms) == start_time_ms

\* last_end_time after a clip of segment_ms milliseconds
NextEndTime(start_time_ms, segment_ms) == start_time_ms + segment_ms

\* one iteration of the loop over the sorted segments
CombineStep ==
    /\ pc = "combine"
    /\ k < Len(generated_segments)
    /\ LET segment == generated_segments[k + 1]
           start_time_ms == time_to_milliseconds(segment.start_time)
       IN  IF Exists(segment.final_audio_file) THEN
               LET segment_ms == LengthOf(segment.final_audio_file) IN
               /\ combined_audio' =
                    combined_audio \o GapSilence(start_time_ms, last_end_time)
                        \o <<Clip(segment.segment_index, segment_ms)>>
               /\ last_end_time' = NextEndTime(start_time_ms, segment_ms)
               /\ k' = k + 1
               /\ UNCHANGED <<pc, combine_exit, result>>
           ELSE
               \* AudioSegment.from_wav raises: the except clause returns ""
               /\ combined_audio' =
                    combined_audio \o GapSilence(start_time_ms, last_end_time)
               /\ combine_exit' = "error"
               /\ result' = SuccessResult(CombineErrorReturn, generated_segments)
               /\ pc' = "done"
               /\ UNCHANGED <<k, last_end_time>>
    /\ UNCHANGED <<total_segments, i, transcript, errors, generated_segments,
                   files, pauses>>
    /\ UNCHANGED others

\* the export of the track and the return of its path
CombineExport ==
    /\ pc = "combine"
    /\ k = Len(generated_segments)
    /\ \E written \in BOOLEAN :
         IF written THEN
             /\ combine_exit' = "ok"
             /\ result' = SuccessResult(FinalAudioFile, generated_segments)
         ELSE
             /\ combine_exit' = "error"
             /\ result' = SuccessResult(CombineErrorReturn, generated_segments)
    /\ pc' = "done"
    /\ UNCHANGED <<total_segments, i, transcript, errors, generated_segments,
                   files, pauses, k, combined_audio, last_end_time>>
    /\ UNCHANGED others

Next == Setup \/ GenerateSegment \/ CombineStart \/ CombineStep \/ CombineExport

Spec == Init /\ [][Next]_allvars

\* ------------------------------------------------ _time_to_milliseconds
\* Most fields a time text is written from.
MaxFields == 4

\* the fields: empty, one to four digits, and one that is not a number
FieldTexts ==
    { <<>>, <<"5">>, <<"0", "5">>, <<"0", "5", "0">>, <<"1", "2">>,
      <<"0", ".", "5">>, <<"0", "5", "0", "0">> }

RECURSIVE JoinFields(_)
\* the fields with ':' between them
JoinFields(fields) ==
    IF Len(fields) = 0 THEN <<>>
    ELSE IF Len(fields) = 1 THEN fields[1]
    ELSE fields[1] \o <<":">> \o JoinFields(Tail(fields))

TimeInit ==
    /\ GeneratorIdle
    /\ ArgIdle
    /\ PaceIdle
    /\ SegIdle
    /\ FitIdle
    /\ PipeIdle
    /\ VoiceIdle
    /\ tpc = "call"
    /\ \E n \in 1..MaxFields : time_fields \in [1..n -> FieldTexts]
    /\ time_text = JoinFields(time_fields)
    /\ total_ms = 0

\* the call of _time_to_milliseconds(time_text)
ParseTime ==
    /\ tpc = "call"
    /\ total_ms' = time_to_milliseconds(time_text)
    /\ tpc' = "return"
    /\ UNCHANGED <<time_fields, time_text>>
    /\ UNCHANGED exceptTime

TimeNext == ParseTime

SpecTime == TimeInit /\ [][TimeNext]_allvars

\* ------------------------------------------- fitting a clip to its slot
\* rate of _save_wave_file, the sample rate librosa.load(sr=None) reads back
SampleRate == 24000

\* calls of _adjust_audio_speed explored on one segment
MaxFits == 2

RECURSIVE GCD(_, _)
GCD(a, b) == IF b = 0 THEN a ELSE GCD(b, a % b)

Abs(a) == IF a < 0 THEN -a ELSE a

\* seconds are exact fractions num/den, den > 0, in lowest terms
Frac(n, d) ==
    LET g == GCD(Abs(n), d) IN [num |-> n \div g, den |-> d \div g]

\* x / y for y > 0
FracDiv(x, y) ==
    LET g1 == GCD(Abs(x.num), y.num)
        g2 == GCD(y.den, x.den)
    IN  IF x.num = 0 THEN Frac(0, 1)
        ELSE [num |-> (x.num \div g1) * (y.den \div g2),
              den |-> (x.den \div g2) * (y.num \div g1)]

\* x * y
FracMul(x, y) ==
    LET g1 == GCD(Abs(x.num), y.den)
        g2 == GCD(Abs(y.num), x.den)
    IN  IF x.num = 0 \/ y.num = 0 THEN Frac(0, 1)
        ELSE [num |-> (x.num \div g1) * (y.num \div g2),
              den |-> (x.den \div g2) * (y.den \div g1)]

\* x <= y
FracLeq(x, y) == x.num * y.den <= y.num * x.den

\* int(x) for x >= 0: the fraction is cut off
IntTrunc(x) == x.num \div x.den

\* int(round(x)) for x >= 0: a half goes to the even neighbour
RoundHalfEven(x) ==
    LET fl == x.num \div x.den
        twice == 2 * (x.num % x.den)
    IN  IF twice < x.den THEN fl
        ELSE IF twice > x.den THEN fl + 1
        ELSE IF fl % 2 = 0 THEN fl ELSE fl + 1

\* a stretch that comes back empty
TimeStretch_Empty(frames, rate) == 0

\* librosa.effects.time_stretch(y, rate): round(len(y) / rate) samples
TimeStretch(frames, rate) ==
    RoundHalfEven(FracDiv(Frac(frames, 1), rate))

\* librosa.util.fix_length(y, size): cut or zero-padded to size
FixLength(frames, size) == size

AdjustFailed(why, file) ==
    [success |-> FALSE, outcome |-> why, written |-> file,
     warned |-> FALSE]

\* _adjust_audio_speed(input_file, output_file, target): what it returns,
\* by which way out, and the frames of output_file afterwards
adjust_audio_speed(input_frames, output_frames, target, io) ==
    IF input_frames = NoFile
    THEN AdjustFailed("FileNotFoundError", output_frames)
    ELSE IF ~io.load THEN AdjustFailed("Exception", output_frames)
    ELSE
    LET sr == SampleRate
        current_duration == Frac(input_frames, sr)
    IN  IF current_duration.num <= 0 \/ target.num <= 0
        THEN AdjustFailed("Invalid duration", output_frames)
        ELSE
        LET speed_ratio == FracDiv(current_duration, target)
            warned == ~(/\ FracLeq(Frac(1, 2), speed_ratio)
                        /\ FracLeq(speed_ratio, Frac(2, 1)))
            y_stretched == TimeStretch(input_frames, speed_ratio)
            target_length_samples == IntTrunc(FracMul(target, Frac(sr, 1)))
            y_fixed == FixLength(y_stretched, target_length_samples)
        IN  IF y_stretched = 0 /\ target_length_samples > 0
            THEN [AdjustFailed("empty audio", output_frames)
                      EXCEPT !.warned = warned]
            ELSE IF ~io.write
            THEN [AdjustFailed("Exception", output_frames)
                      EXCEPT !.warned = warned]
            ELSE IF ~io.verify
            THEN [AdjustFailed("Exception", y_fixed)
                      EXCEPT !.warned = warned]
            ELSE [success |-> TRUE, outcome |-> "ok", written |-> y_fixed,
                  warned |-> warned]

\* the fitted file is named whatever the fit returned
adjusted_audio_file_Fitted(fitted) == "adjusted"

\* adjusted_audio_file: the fitted file, the raw one if the fit failed
adjusted_audio_file(fitted) == IF fitted THEN "adjusted" ELSE "raw"

\* _save_wave_file: the frames are in the file, or the error is printed
\* and there is no file
save_wave_file(frames, io) == IF io.save THEN frames ELSE NoFile

\* clips of no, one, and half a second to three seconds of audio
AudioFrames == {0, 1, 12000, 24000, 48000, 72000}

\* duration_seconds: absent or 0, negative, under one sample, a fraction of
\* a sample beyond two, 9 ms, and whole seconds
TargetSeconds ==
    { Frac(0, 1), Frac(-1, 1), Frac(1, 48000), Frac(11, 100000),
      Frac(9, 1000), Frac(1, 1), Frac(3, 1) }

Disks == [save : BOOLEAN, load : BOOLEAN, write : BOOLEAN,
          verify : BOOLEAN]

FitInit ==
    /\ GeneratorIdle
    /\ ArgIdle
    /\ PaceIdle
    /\ SegIdle
    /\ TimeIdle
    /\ PipeIdle
    /\ VoiceIdle
    /\ fpc = "synthesized"
    /\ audio_frames \in AudioFrames
    /\ target_duration \in TargetSeconds
    /\ disk \in Disks
    /\ raw_frames = NoFile
    /\ adjusted_frames = NoFile
    /\ adjust_returns = <<>>
    /\ segment_result = [success |-> FALSE]

\* _generate_segment_audio from "Save raw generated audio" to its return
GenerateSegmentAudio ==
    /\ fpc = "synthesized"
    /\ LET raw == save_wave_file(audio_frames, disk)
           r == adjust_audio_speed(raw, adjusted_frames, target_duration,
                                   disk)
       IN  /\ raw_frames' = raw
           /\ IF target_duration.num > 0
              THEN /\ adjusted_frames' = r.written
                   /\ adjust_returns' = <<r>>
                   /\ segment_result' =
                          [success |-> TRUE,
                           raw_audio_file |-> "raw",
                           final_audio_file |->
                               adjusted_audio_file(r.success)]
              ELSE /\ adjusted_frames' = adjusted_frames
                   /\ adjust_returns' = <<>>
                   /\ segment_result' =
                          [success |-> TRUE,
                           raw_audio_file |-> "raw",
                           final_audio_file |-> "raw"]
    /\ fpc' = "returned"
    /\ UNCHANGED <<audio_frames, target_duration, disk>>
    /\ UNCHANGED exceptFit

\* _adjust_audio_speed called on the clip a fit to this target has written
AdjustAgain ==
    /\ fpc = "returned"
    /\ 0 < Len(adjust_returns) /\ Len(adjust_returns) < MaxFits
    /\ adjust_returns[Len(adjust_returns)].success
    /\ LET r == adjust_audio_speed(adjusted_frames, adjusted_frames,
                                   target_duration, disk)
       IN  /\ adjusted_frames' = r.written
           /\ adjust_returns' = Append(adjust_returns, r)
    /\ UNCHANGED <<fpc, audio_frames, target_duration, disk, raw_frames,
                   segment_result>>
    /\ UNCHANGED exceptFit

FitNext == GenerateSegmentAudio \/ AdjustAgain

SpecFit == FitInit /\ [][FitNext]_allvars

\* ------------------------------------------------------- process_video
\* what a stage can meet:
\*   video: prepared; an error dict; or, for a URL whose metadata cannot
\*          be fetched, the handler of download_youtube_video itself
\*          raising on the unbound video_title
\*   asr:   a transcript, or an error dict
\*   audio: a track exported; no clip to assemble; the assembly failing;
\*          or generate_audio_from_transcript's own error dict
\*   ffmpeg found at construction or not, and its run passing or failing
StageEnvs ==
    [video : {"ok", "error", "raises"},
     asr : {"ok", "error"},
     audio : {"exported", "empty", "assembly_failed", "error"},
     ffmpeg_available : BOOLEAN,
     ffmpeg : {"ok", "fails"}]

\* the message process_video gives _error_result for a stage
StageMessage(stage) ==
    CASE stage = "video_preparation" -> "Video preparation failed"
      [] stage = "transcript_generation" -> "Transcript generation failed"
      [] stage = "audio_generation" -> "Audio generation failed"
      [] stage = "video_combination" -> "Video combination failed"

\* the diagnostic text of a stage: its result's 'error'
Diagnostic(stage) == [of |-> stage]

StageOk(stage) == [stage |-> stage, success |-> TRUE]
StageError(stage) ==
    [stage |-> stage, success |-> FALSE, error |-> Diagnostic(stage)]

\* _error_result(results, message, error)
error_result(message, error) ==
    [success |-> FALSE, returned |-> TRUE, error_message |-> message,
     error_details |-> error]

\* generate_audio_from_transcript: success with the exported path, success
\* with the "" _combine_audio_segments returns for no clips or a failed
\* assembly, or its own error dict
audio_result(met) ==
    CASE met = "exported" ->
             [stage |-> "audio_generation", success |-> TRUE,
              final_audio_path |-> FinalAudioFile]
      [] met = "empty" ->
             [stage |-> "audio_generation", success |-> TRUE,
              final_audio_path |-> EmptyInputReturn]
      [] met = "assembly_failed" ->
             [stage |-> "audio_generation", success |-> TRUE,
              final_audio_path |-> CombineErrorReturn]
      [] met = "error" ->
             [stage |-> "audio_generation", success |-> FALSE,
              error |-> Diagnostic("audio_generation"),
              final_audio_path |-> ""]

\* combine_video_with_audio: ffmpeg missing, its run failing (as it does on
\* an audio input named ""), or the output written
combine_result(audio_path, met) ==
    IF ~met.ffmpeg_available \/ met.ffmpeg = "fails" \/ audio_path = ""
    THEN StageError("video_combination")
    ELSE StageOk("video_combination")

PipeInit ==
    /\ GeneratorIdle
    /\ ArgIdle
    /\ PaceIdle
    /\ SegIdle
    /\ TimeIdle
    /\ FitIdle
    /\ VoiceIdle
    /\ ppc = "video_preparation"
    /\ stage_env \in StageEnvs
    /\ steps = <<>>
    /\ failed_first = "none"
    /\ pipeline_result = [success |-> FALSE, returned |-> FALSE]

\* a stage's result is recorded; process_video returns the error result
\* or goes on to the next stage
Record(stage_result, next) ==
    /\ steps' = Append(steps, stage_result)
    /\ IF stage_result.success
       THEN /\ ppc' = next
            /\ pipeline_result' = pipeline_result
       ELSE /\ ppc' = "returned"
            /\ pipeline_result' =
                   error_result(StageMessage(stage_result.stage),
                                stage_result.error)

\* Step 1: prepare_video, or the except clause of process_video
PrepareVideo ==
    /\ ppc = "video_preparation"
    /\ IF stage_env.video = "raises"
       THEN /\ ppc' = "returned"
            /\ steps' = steps
            /\ pipeline_result' =
                   error_result("Pipeline execution failed",
                                "UnboundLocalError")
       ELSE Record(IF stage_env.video = "ok"
                   THEN StageOk("video_preparation")
                   ELSE StageError("video_preparation"),
                   "transcript_generation")
    /\ failed_first' =
           IF stage_env.video = "ok" THEN "none" ELSE "video_preparation"
    /\ UNCHANGED stage_env
    /\ UNCHANGED exceptPipe

\* Step 2: process_youtube_url_for_transcript
GenerateTranscript ==
    /\ ppc = "transcript_generation"
    /\ Record(IF stage_env.asr = "ok"
              THEN StageOk("transcript_generation")
              ELSE StageError("transcript_generation"),
              "audio_generation")
    /\ failed_first' =
           IF stage_env.asr = "ok" THEN "none" ELSE "transcript_generation"
    /\ UNCHANGED stage_env
    /\ UNCHANGED exceptPipe

\* Step 3: generate_audio_from_transcript
GenerateAudio ==
    /\ ppc = "audio_generation"
    /\ Record(audio_result(stage_env.audio), "video_combination")
    /\ failed_first' =
           IF stage_env.audio \in {"assembly_failed", "error"}
           THEN "audio_generation" ELSE "none"
    /\ UNCHANGED stage_env
    /\ UNCHANGED exceptPipe

\* Step 4: combine_video_with_audio and the success summary
CombineVideo ==
    /\ ppc = "video_combination"
    /\ LET audio == steps[Len(steps)]
           combined == combine_result(audio.final_audio_path, stage_env)
       IN  /\ steps' = Append(steps, combined)
           /\ pipeline_result' =
                  IF combined.success
                  THEN [success |-> TRUE, returned |-> TRUE,
                        dubbed_audio_path |-> audio.final_audio_path]
                  ELSE error_result(StageMessage(combined.stage),
                                    combined.error)
           /\ failed_first' =
                  IF failed_first = "none" /\ ~combined.success
                  THEN "video_combination" ELSE failed_first
    /\ ppc' = "returned"
    /\ UNCHANGED stage_env
    /\ UNCHANGED exceptPipe

PipeNext ==
    PrepareVideo \/ GenerateTranscript \/ GenerateAudio \/ CombineVideo

SpecPipeline == PipeInit /\ [][PipeNext]_allvars

\* ------------------------------------------------------- VoiceSelector
\* speakers in one speakers_info, and calls on one VoiceSelector
MaxSpeakers == 2
MaxCalls == 2

\* SPEAKER_STYLES
SPEAKER_STYLES ==
    [alloy |-> "female", ash |-> "male", ballad |-> "male",
     coral |-> "female", echo |-> "male", fable |-> "female",
     onyx |-> "male", nova |-> "female", sage |-> "female",
     shimmer |-> "female", verse |-> "male"]

\* get_all_voices
get_all_voices == DOMAIN SPEAKER_STYLES

\* str.lower() on the gender texts met
Lower(text) ==
    CASE text = "Male" -> "male"
      [] text = "Female" -> "female"
      [] OTHER -> text

\* str.strip() on the speaker ids met
Strip(text) ==
    CASE text = " Speaker 1" -> "Speaker 1"
      [] text = "Speaker 2 " -> "Speaker 2"
      [] OTHER -> text

\* restricted: None (the default) or a set of voice names
NoneRestricted == [none |-> TRUE, names |-> {}]
Restricted(names) == [none |-> FALSE, names |-> names]

\* the voices of the gender, taken or not
get_voices_by_gender_Unrestricted(gender, restricted) ==
    [raised |-> FALSE,
     voices |-> {name \in DOMAIN SPEAKER_STYLES :
                     Lower(SPEAKER_STYLES[name]) = Lower(gender)}]

\* get_voices_by_gender: the voices of the gender outside restricted;
\* `name not in None` raises for the first voice of that gender
get_voices_by_gender(gender, restricted) ==
    LET of_gender == {name \in DOMAIN SPEAKER_STYLES :
                          Lower(SPEAKER_STYLES[name]) = Lower(gender)}
    IN  IF restricted.none /\ of_gender # {}
        THEN [raised |-> TRUE, voices |-> {}]
        ELSE [raised |-> FALSE, voices |-> of_gender \ restricted.names]

\* every call picks anew
AlreadyAssigned_Never(mapping, speaker_id) == FALSE

\* speaker_id in self.speaker_voice_mapping
AlreadyAssigned(mapping, speaker_id) == speaker_id \in DOMAIN mapping

\* the mapping with speaker_id set to voice
WithVoice(mapping, speaker_id, voice) ==
    [s \in DOMAIN mapping \cup {speaker_id} |->
        IF s = speaker_id THEN voice ELSE mapping[s]]

\* assign_voice_to_speaker(speaker_id, gender, restricted): the mapping
\* afterwards, and what the call gave back: the memoized voice, None after
\* a new entry, or the TypeError of get_voices_by_gender
assign_voice_to_speaker(speaker_id, gender, restricted) ==
    IF AlreadyAssigned(speaker_voice_mapping, speaker_id)
    THEN /\ last_assign' = [speaker_id |-> speaker_id,
                            returned |-> speaker_voice_mapping[speaker_id]]
         /\ speaker_voice_mapping' = speaker_voice_mapping
    ELSE LET found == get_voices_by_gender(gender, restricted)
             available_voices == IF found.voices = {} THEN get_all_voices
                                 ELSE found.voices
         IN  IF found.raised
             THEN /\ last_assign' = [speaker_id |-> speaker_id,
                                     returned |-> "TypeError"]
                  /\ speaker_voice_mapping' = speaker_voice_mapping
             ELSE /\ last_assign' = [speaker_id |-> speaker_id,
                                     returned |-> "None"]
                  /\ \E selected_voice \in available_voices :
                         speaker_voice_mapping' =
                             WithVoice(speaker_voice_mapping, speaker_id,
                                       selected_voice)

\* the speaker_id and gender texts of the profiles; a profile may lack its
\* gender
SpeakerIds == {"Speaker 1", " Speaker 1", "Speaker 2"}
Genders == {"male", "Female", "unknown"}
NoGender == "None"
Profiles == [speaker_id : SpeakerIds, gender : Genders \cup {NoGender}]

\* the restricted sets a caller of assign_voice_to_speaker passes
RestrictedSets ==
    { NoneRestricted, Restricted({}),
      Restricted({"ash", "ballad", "echo", "onyx", "verse"}),
      Restricted(DOMAIN SPEAKER_STYLES) }

VoiceInit ==
    /\ GeneratorIdle
    /\ ArgIdle
    /\ PaceIdle
    /\ SegIdle
    /\ TimeIdle
    /\ FitIdle
    /\ PipeIdle
    /\ vpc = "ready"
    /\ speaker_voice_mapping = NoMapping
    /\ speakers_info = <<>>
    /\ speaker_index = 0
    /\ calls = 0
    /\ last_assign = NoAssign

\* get_speaker_voices(speakers_info) is entered
GetSpeakerVoices ==
    /\ vpc = "ready"
    /\ calls < MaxCalls
    /\ \E n \in 0..MaxSpeakers : speakers_info' \in [1..n -> Profiles]
    /\ speaker_index' = 1
    /\ vpc' = "for speaker"
    /\ calls' = calls + 1
    /\ UNCHANGED <<speaker_voice_mapping, last_assign>>
    /\ UNCHANGED exceptVoice

\* one speaker of the loop; a profile without gender ends the call with the
\* AttributeError of None.lower()
ForSpeaker ==
    /\ vpc = "for speaker"
    /\ speaker_index <= Len(speakers_info)
    /\ LET speaker == speakers_info[speaker_index]
           restricted ==
               Restricted({speaker_voice_mapping[s] :
                               s \in DOMAIN speaker_voice_mapping})
           speaker_id == Strip(speaker.speaker_id)
       IN  IF speaker.gender = NoGender
           THEN /\ vpc' = "ready"
                /\ UNCHANGED <<speaker_voice_mapping, speaker_index,
                               last_assign>>
           ELSE /\ assign_voice_to_speaker(speaker_id,
                                           Lower(speaker.gender),
                                           restricted)
                /\ speaker_index' = speaker_index + 1
                /\ vpc' = vpc
    /\ UNCHANGED <<speakers_info, calls>>
    /\ UNCHANGED exceptVoice

\* return self.speaker_voice_mapping
ReturnSpeakerVoices ==
    /\ vpc = "for speaker"
    /\ speaker_index > Len(speakers_info)
    /\ vpc' = "ready"
    /\ UNCHANGED <<speaker_voice_mapping, speakers_info, speaker_index,
                   calls, last_assign>>
    /\ UNCHANGED exceptVoice

\* assign_voice_to_speaker called on its own
AssignVoice ==
    /\ vpc = "ready"
    /\ calls < MaxCalls
    /\ \E speaker_id \in {Strip(s) : s \in SpeakerIds},
          gender \in Genders, restricted \in RestrictedSets :
           assign_voice_to_speaker(speaker_id, gender, restricted)
    /\ calls' = calls + 1
    /\ UNCHANGED <<vpc, speakers_info, speaker_index>>
    /\ UNCHANGED exceptVoice

VoiceNext ==
    GetSpeakerVoices \/ ForSpeaker \/ ReturnSpeakerVoices \/ AssignVoice

SpecVoices == VoiceInit /\ [][VoiceNext]_allvars

\* ------------------------------------------- a cast of many speakers
\* speakers in the one speakers_info of a large cast: one more than the
\* male voices
MaxCast == 6

CastId(n) ==
    CASE n = 1 -> "Speaker 1" [] n = 2 -> "Speaker 2" [] n = 3 -> "Speaker 3"
      [] n = 4 -> "Speaker 4" [] n = 5 -> "Speaker 5" [] n = 6 -> "Speaker 6"
      [] OTHER -> "Speaker 7"

\* the genders of the casts: all male; a woman first; a speaker of a
\* gender no voice has, last or second
CastGenders ==
    { [n \in 1..MaxCast |-> "male"],
      [n \in 1..MaxCast |-> IF n = 1 THEN "Female" ELSE "male"],
      [n \in 1..MaxCast |-> IF n = MaxCast THEN "unknown" ELSE "male"],
      [n \in 1..MaxCast |-> IF n = 2 THEN "unknown" ELSE "male"] }

Casts ==
    { [n \in 1..MaxCast |-> [speaker_id |-> CastId(n), gender |-> g[n]]] :
          g \in CastGenders }

\* get_speaker_voices is entered with a cast, once, on a new VoiceSelector
GetCastVoices ==
    /\ vpc = "ready"
    /\ calls = 0
    /\ speakers_info' \in Casts
    /\ speaker_index' = 1
    /\ vpc' = "for speaker"
    /\ calls' = calls + 1
    /\ UNCHANGED <<speaker_voice_mapping, last_assign>>
    /\ UNCHANGED exceptVoice

CastNext == GetCastVoices \/ ForSpeaker \/ ReturnSpeakerVoices

SpecCast == VoiceInit /\ [][CastNext]_allvars

\* ----------------------------------- sessions on one AudioGenerator
\* generate_audio_from_transcript reaches the VoiceSelector made in
\* AudioGenerator.__init__ only through get_speaker_voices, once a session
SessionNext == GetSpeakerVoices \/ ForSpeaker \/ ReturnSpeakerVoices

SpecSessions == VoiceInit /\ [][SessionNext]_allvars

\* ------------------------- _combine_audio_segments on any list of clips
\* clips in a list passed to _combine_audio_segments
MaxClips == 3

\* lengths of the clip files, in milliseconds
ClipDurations == {400, 1000}

\* the segment dict of clip j
ClipDicts(n) ==
    { [segment_index |-> j, start_time |-> st, target_duration |-> 0,
       final_audio_file |-> RawFile(j)] :
          j \in 0..(n - 1), st \in StartTimes }

\* the lists: unique segment_index values 0 .. n-1 in any order
ClipLists ==
    UNION { { segs \in [1..n -> ClipDicts(n)] :
                  \A a, b \in 1..n :
                      a # b => segs[a].segment_index # segs[b].segment_index } :
            n \in 0..MaxClips }

\* the call: the list, and a readable file for each of its clips
CombineInit ==
    /\ pc = "generate"
    /\ segments_arg \in ClipLists
    /\ generated_segments = segments_arg
    /\ total_segments = Len(segments_arg)
    /\ i = total_segments
    /\ transcript = <<>>
    /\ errors = <<>>
    /\ files \in { {[name |-> RawFile(j), ms |-> ms[j]] :
                        j \in 0..(total_segments - 1)} :
                   ms \in [0..(total_segments - 1) -> ClipDurations] }
    /\ pauses = 0
    /\ k = 0
    /\ combined_audio = <<>>
    /\ last_end_time = 0
    /\ combine_exit = "none"
    /\ result = NoResult
    /\ TimeIdle /\ FitIdle /\ PipeIdle /\ VoiceIdle /\ PaceIdle /\ SegIdle

CombineNext == CombineStart \/ CombineStep \/ CombineExport

SpecCombine == CombineInit /\ [][CombineNext]_allvars

\* ------------------------------------- the pacing of a long transcript
\* longest transcript paced: two pauses and a segment after the second
MaxPaced == 41

PaceInit ==
    /\ pc = "paced"
    /\ total_segments \in 0..MaxPaced
    /\ i = 0
    /\ transcript = <<>>
    /\ errors = <<>>
    /\ generated_segments = <<>>
    /\ files = {}
    /\ pauses = 0
    /\ k = 0
    /\ combined_audio = <<>>
    /\ last_end_time = 0
    /\ combine_exit = "none"
    /\ result = NoResult
    /\ paused_before = {}
    /\ since_pause = 0
    /\ requests_since_pause = 0
    /\ TimeIdle /\ FitIdle /\ PipeIdle /\ VoiceIdle /\ ArgIdle /\ SegIdle

\* one iteration of the loop: the pause if it is due, then
\* _generate_segment_audio on segment i, which calls the speech service
\* unless the segment's text is empty
PacedSegment ==
    /\ pc = "paced"
    /\ i < total_segments
    /\ \E requested \in BOOLEAN :
         IF PauseBefore(i)
         THEN /\ pauses' = pauses + 1
              /\ paused_before' = paused_before \cup {i}
              /\ since_pause' = 1
              /\ requests_since_pause' = IF requested THEN 1 ELSE 0
         ELSE /\ pauses' = pauses
              /\ paused_before' = paused_before
              /\ since_pause' = since_pause + 1
              /\ requests_since_pause' =
                     requests_since_pause + (IF requested THEN 1 ELSE 0)
    /\ i' = i + 1
    /\ UNCHANGED <<pc, total_segments, transcript, errors,
                   generated_segments, files, k, combined_audio,
                   last_end_time, combine_exit, result>>
    /\ UNCHANGED <<timevars, fitvars, pipevars, voicevars, argvars,
                   segvars>>

\* the loop is left
PacedDone ==
    /\ pc = "paced"
    /\ i = total_segments
    /\ pc' = "generated"
    /\ UNCHANGED <<total_segments, i, transcript, errors,
                   generated_segments, files, pauses, k, combined_audio,
                   last_end_time, combine_exit, result>>
    /\ UNCHANGED others

PaceNext == PacedSegment \/ PacedDone

SpecPacing == PaceInit /\ [][PaceNext]_allvars

\* ------------------------------------ the voice of a segment's speaker
\* voice_assignments.get(speaker, 'onyx')
DefaultVoice == "onyx"

\* the voice asked of the speech service for this speaker
voice_name_of(voice_assignments, speaker) ==
    IF speaker \in DOMAIN voice_assignments
    THEN voice_assignments[speaker]
    ELSE DefaultVoice

\* _generate_segment_audio on a segment with text, in a session whose
\* get_speaker_voices has returned: the speaker_id is looked up as the
\* segment gives it, and the speech service answers or not
SegmentVoice ==
    /\ vpc = "ready"
    /\ calls > 0
    /\ \E speaker \in SpeakerIds, audio_data \in BOOLEAN :
         voiced_segment' =
             [speaker |-> speaker,
              voice_name |-> voice_name_of(speaker_voice_mapping, speaker),
              success |-> audio_data]
    /\ vpc' = "segments"
    /\ UNCHANGED <<speaker_voice_mapping, speakers_info, speaker_index,
                   calls, last_assign>>
    /\ UNCHANGED exceptSeg

SpeakerNext ==
    GetSpeakerVoices \/ ForSpeaker \/ ReturnSpeakerVoices \/ SegmentVoice

SpecSpeaker == VoiceInit /\ [][SpeakerNext]_allvars

\* ============================================================= claims
\* positions of the clips in the track
ClipPositions ==
    {n \in 1..Len(combined_audio) : combined_audio[n].kind = "clip"}

\* where piece n begins in the track
OffsetOf(n) == TrackMs(SubSeq(combined_audio, 1, n - 1))

\* parsed start_time and clip length of the n-th generated segment
SlotStartAt(n) == time_to_milliseconds(generated_segments[n].start_time)
ClipMsAt(n) == LengthOf(generated_segments[n].final_audio_file)

\* parsed start_time of the generated segment with this segment_index
SlotStart(idx) ==
    SlotStartAt(CHOOSE n \in 1..Len(generated_segments) :
                    generated_segments[n].segment_index = idx)

\* the clip before position n of the track (0: none)
PrevClip(n) ==
    IF \E p \in ClipPositions : p < n
    THEN CHOOSE p \in ClipPositions :
             p < n /\ \A q \in ClipPositions : q < n => q <= p
    ELSE 0

\* the write cursor when the clip at position n was appended
CursorBefore(n) ==
    IF PrevClip(n) = 0 THEN 0
    ELSE NextEndTime(SlotStart(combined_audio[PrevClip(n)].idx),
                     combined_audio[PrevClip(n)].ms)

\* the gap the loop saw before the clip at position n
GapBefore(n) == SlotStart(combined_audio[n].idx) - CursorBefore(n)

\* a track was assembled and exported
Assembled == pc = "done" /\ combine_exit = "ok"

\* ---------------------------------------------------------------- C1
\* the gap before the n-th generated clip on the original timeline
SlotGap(n) ==
    SlotStartAt(n) - (IF n = 1 THEN 0 ELSE SlotStartAt(n - 1) + ClipMsAt(n - 1))

\* start times strictly increasing, slots not overlapping, every gap above
\* 20 ms, the lead-in absent or above 20 ms
WellSpaced ==
    \A n \in 1..Len(generated_segments) :
        /\ Exists(generated_segments[n].final_audio_file)
        /\ n = 1 => (SlotStartAt(1) = 0 \/ SlotStartAt(1) > 20)
        /\ n > 1 => /\ Exists(generated_segments[n - 1].final_audio_file)
                    /\ SlotStartAt(n) > SlotStartAt(n - 1)
                    /\ SlotGap(n) > 20

RECURSIVE GapFilledTrack(_)
\* the first n clips, each after silence of exactly its gap
GapFilledTrack(n) ==
    IF n = 0 THEN <<>>
    ELSE GapFilledTrack(n - 1)
           \o (IF SlotGap(n) > 0 THEN <<Silence(SlotGap(n))>> ELSE <<>>)
           \o <<Clip(generated_segments[n].segment_index, ClipMsAt(n))>>

\* C1: for clips with strictly increasing start times, slots that do not
\* overlap and gaps (lead-in included) all above 20 ms, the assembled track
\* lasts last_start + last_clip_duration and the silence before each clip is
\* exactly its gap.
C1_WellSpacedTrack ==
    (Assembled /\ WellSpaced) =>
        /\ TrackMs(combined_audio)
             = SlotStartAt(Len(generated_segments))
                 + ClipMsAt(Len(generated_segments))
        /\ combined_audio = GapFilledTrack(Len(generated_segments))

C1_Witness ==
    /\ Assembled /\ WellSpaced
    /\ Len(generated_segments) = 3
    /\ SlotStartAt(1) > 20
    /\ Len(combined_audio) = 6

\* ---------------------------------------------------------------- C2
\* the end of all material written before the clip at position n (the
\* silence right before it belongs to that clip)
MaterialBefore(n) ==
    IF n > 1 /\ combined_audio[n - 1].kind = "silence"
    THEN OffsetOf(n - 1) ELSE OffsetOf(n)

\* C2: every clip whose slot start lies more than 20 ms after the end of
\* all material already written begins in the track exactly at its slot
\* start.
C2_ClipAtSlotStart ==
    \A n \in ClipPositions :
        SlotStart(combined_audio[n].idx) > MaterialBefore(n) + 20
            => OffsetOf(n) = SlotStart(combined_audio[n].idx)

\* ---------------------------------------------------------------- C3
\* C3: after each clip is appended, the write cursor last_end_time equals
\* the total duration of the track written so far.
C3_CursorIsTrackEnd ==
    pc = "combine" => last_end_time = TrackMs(combined_audio)

\* ---------------------------------------------------------------- C4
\* C4: a clip whose slot start is at or before the write cursor is appended
\* with no silence, starting exactly at the cursor.
C4_OverlapAtCursor ==
    [][(pc = "combine" /\ k' = k + 1
          /\ SlotStartAt(k + 1) <= last_end_time)
        => /\ combined_audio' =
                Append(combined_audio,
                       Clip(generated_segments[k + 1].segment_index,
                            ClipMsAt(k + 1)))
           /\ TrackMs(combined_audio) = last_end_time]_vars

\* the three-segment scenario of C4: 0 ms/1.0 s, 2000 ms/1.0 s, 2500 ms/0.4 s
Scenario ==
    /\ Len(generated_segments) = 3
    /\ Assembled
    /\ SlotStartAt(1) = 0 /\ ClipMsAt(1) = 1000
    /\ SlotStartAt(2) = 2000 /\ ClipMsAt(2) = 1000
    /\ SlotStartAt(3) = 2500 /\ ClipMsAt(3) = 400

\* its track is clip, 1000 ms of silence, clip, clip: 3400 ms
ScenarioTrack ==
    Scenario =>
        /\ TrackMs(combined_audio) = 3400
        /\ combined_audio =
             <<Clip(generated_segments[1].segment_index, 1000), Silence(1000),
               Clip(generated_segments[2].segment_index, 1000),
               Clip(generated_segments[3].segment_index, 400)>>

\* ---------------------------------------------------------------- C5
RECURSIVE SumElided(_)
\* total length of the gaps of 1..20 ms that got no silence
SumElided(S) ==
    IF S = {} THEN 0
    ELSE LET n == CHOOSE m \in S : TRUE
         IN  (IF GapBefore(n) > 0 /\ GapBefore(n) <= 20
              THEN GapBefore(n) ELSE 0) + SumElided(S \ {n})

ElidedMs == SumElided(ClipPositions)

\* C5 as stated: the assembled track lasts at least start_time + clip
\* duration of every included clip.
C5_DurationCoversSlots ==
    Assembled =>
        \A n \in ClipPositions :
            TrackMs(combined_audio)
                >= SlotStart(combined_audio[n].idx) + combined_audio[n].ms

\* C5 amended: the assembled track lasts at least start_time + clip duration
\* of every included clip, less the micro-gaps (each at most 20 ms) that
\* were elided.
C5_DurationCoversSlotsLessElided ==
    Assembled =>
        \A n \in ClipPositions :
            TrackMs(combined_audio) + ElidedMs
                >= SlotStart(combined_audio[n].idx) + combined_audio[n].ms

C5_Witness ==
    /\ Assembled
    /\ ElidedMs > 0
    /\ \E n \in ClipPositions :
           TrackMs(combined_audio)
               < SlotStart(combined_audio[n].idx) + combined_audio[n].ms

\* ---------------------------------------------------------------- C6
\* C6: a gap of 1..20 ms between the write cursor and a clip's slot start
\* gets no silence and the clip follows the preceding material directly; a
\* gap of 21 ms or more gets silence of that length.
C6_MicroGapElided ==
    [][(pc = "combine" /\ k' = k + 1) =>
         LET gap == SlotStartAt(k + 1) - last_end_time
             clip == Clip(generated_segments[k + 1].segment_index,
                          ClipMsAt(k + 1))
         IN  /\ (gap > 0 /\ gap <= 20)
                    => combined_audio' = Append(combined_audio, clip)
             /\ gap >= 21
                    => combined_audio' =
                         combined_audio \o <<Silence(gap), clip>>]_vars

\* a clip appended right after another clip across a gap of exactly 20 ms
C6_Witness ==
    \E n \in ClipPositions :
        /\ n > 1
        /\ combined_audio[n - 1].kind = "clip"
        /\ GapBefore(n) = 20

\* ---------------------------------------------------------------- C7
\* C7: what _combine_audio_segments returns for an empty list differs from
\* what it returns for an assembled track and from what it returns when the
\* assembly fails with an error.
C7_EmptyResultDistinct ==
    /\ combine_exit = "ok" => result.final_audio_path # EmptyInputReturn
    /\ combine_exit = "error" => result.final_audio_path # EmptyInputReturn

\* ---------------------------------------------------------------- C8
\* C8: a session in which no usable clip reaches the assembler, or in which
\* assembling or writing the final track fails, is returned as a failure:
\* never success with an empty final_audio_path.
C8_FatalSurfaced ==
    (result.returned /\ combine_exit \in {"empty", "error"})
        => ~(result.success /\ result.final_audio_path = "")

\* ---------------------------------------------------------------- C9
Loadable(n) == Exists(generated_segments[n].final_audio_file)

\* C9: a clip that cannot be loaded does not abort the track: the loop
\* reaches the end of the list and the track holds every clip that loads.
C9_ClipFailureIsolated ==
    (/\ pc = "done" /\ combine_exit \in {"ok", "error"}
     /\ \E n \in 1..Len(generated_segments) : ~Loadable(n)
     /\ \E n \in 1..Len(generated_segments) : Loadable(n))
        => /\ k = Len(generated_segments)
           /\ \A n \in 1..Len(generated_segments) :
                  Loadable(n) =>
                      \E p \in ClipPositions :
                          combined_audio[p].idx
                              = generated_segments[n].segment_index

\* --------------------------------------------------------------- C10
\* the segments (1-based positions in the transcript) whose synthesis failed
FailedTTS ==
    {j \in 1..Len(errors) : errors[j] = "TTS generation failed"}

FailedSlotStart(j) == time_to_milliseconds(transcript[j].start_time)
FailedSlotEnd(j) == FailedSlotStart(j) + transcript[j].duration_ms

\* the clips of the segments after segment j, and the first of them
ClipsAfter(j) == {p \in ClipPositions : combined_audio[p].idx > j - 1}
NextClipAfter(j) ==
    CHOOSE p \in ClipsAfter(j) : \A q \in ClipsAfter(j) : p <= q

\* segment j put no clip in the track and the loop went on to the last
\* segment
DroppedAndContinued(j) ==
    /\ \A p \in ClipPositions : combined_audio[p].idx # j - 1
    /\ Len(transcript) = total_segments

SlotInGap(j, p) ==
    /\ GapBefore(p) > 20
    /\ CursorBefore(p) <= FailedSlotStart(j)
    /\ FailedSlotEnd(j) <= SlotStart(combined_audio[p].idx)
    /\ MaterialBefore(p) = CursorBefore(p)

IsNumeral(field, max) ==
    /\ Len(field) >= 1 /\ Len(field) <= max
    /\ \A n \in 1..Len(field) : field[n] \in Digits

RECURSIVE Numeral(_, _)
\* the number a numeral writes, read from its first digit on
Numeral(field, acc) ==
    IF Len(field) = 0 THEN acc
    ELSE Numeral(Tail(field), 10 * acc + DigitVal(Head(field)))

\* the millisecond field right-padded with zeros to 3 digits
PaddedMs(field) ==
    IF Len(field) = 1 THEN 100 * Numeral(field, 0)
    ELSE IF Len(field) = 2 THEN 10 * Numeral(field, 0)
    ELSE Numeral(field, 0)

\* MM:SS:mmm or HH:MM:SS:mmm with a millisecond field of 1 to 3 digits
ValidTimeFields ==
    /\ Len(time_fields) \in {3, 4}
    /\ \A n \in 1..(Len(time_fields) - 1) :
           IsNumeral(time_fields[n], Len(time_fields[n]))
    /\ IsNumeral(time_fields[Len(time_fields)], 3)

ExpectedMs ==
    LET n == Len(time_fields)
        hh == IF n = 4 THEN Numeral(time_fields[1], 0) ELSE 0
        mm == Numeral(time_fields[n - 2], 0)
        ss == Numeral(time_fields[n - 1], 0)
    IN  (hh * 3600 + mm * 60 + ss) * 1000 + PaddedMs(time_fields[n])

\* C11: for a text MM:SS:mmm or HH:MM:SS:mmm with a millisecond field of 1
\* to 3 digits, _time_to_milliseconds returns
\* (HH*3600 + MM*60 + SS) * 1000 + the millisecond field right-padded with
\* zeros to 3 digits.
C11_ParseValid ==
    (tpc = "return" /\ ValidTimeFields) => total_ms = ExpectedMs

\* "00:05:5" with hours and a one-digit millisecond field: 4 fields
C11_Witness ==
    /\ tpc = "return"
    /\ ValidTimeFields
    /\ Len(time_fields) = 4
    /\ Len(time_fields[4]) = 1
    /\ total_ms = 18305500

\* C12: for a malformed text (a field count other than 3 or 4, a field that
\* is not a number, an empty or over-long millisecond field)
\* _time_to_milliseconds returns 0.
C12_MalformedIsZero ==
    (tpc = "return" /\ ~ValidTimeFields) => total_ms = 0

\* ---------------------------------------------------------- C13 .. C17
\* frames of the file the n-th call of _adjust_audio_speed was given
InputOf(n) == IF n = 1 THEN raw_frames ELSE adjust_returns[n - 1].written

\* the clip written lasts the target within one sample period:
\* | frames / SampleRate - target | < 1 / SampleRate
WithinOneSample(frames) ==
    Abs(frames * target_duration.den - target_duration.num * SampleRate)
        < target_duration.den

\* a clip of positive duration, a target > 0, files that read and write
Fittable(n) ==
    /\ InputOf(n) > 0
    /\ target_duration.num > 0
    /\ disk.load /\ disk.write /\ disk.verify

\* C13: for a clip of positive duration and a target duration > 0 (the
\* files being readable and writable), _adjust_audio_speed succeeds and
\* writes a clip that lasts the target within one sample period, whatever
\* the stretch ratio, also when its input is the output of a previous fit
\* to the same target.
C13_FitSucceeds ==
    \A n \in 1..Len(adjust_returns) :
        Fittable(n) => /\ adjust_returns[n].success
                       /\ WithinOneSample(adjust_returns[n].written)

\* 3 s of audio fitted to 1 s (ratio 3, warned), and the result fitted again
C13_Witness ==
    /\ Len(adjust_returns) = 2
    /\ Fittable(1) /\ Fittable(2)
    /\ adjust_returns[1].warned
    /\ adjust_returns[2].success
    /\ adjusted_frames = SampleRate

\* C14: the clip written by a successful _adjust_audio_speed has exactly
\* round(target_duration * sample_rate) samples.
C14_RoundedSampleCount ==
    \A n \in 1..Len(adjust_returns) :
        adjust_returns[n].success =>
            adjust_returns[n].written =
                RoundHalfEven(FracMul(target_duration, Frac(SampleRate, 1)))

\* C15: _adjust_audio_speed never reports success for a clip of zero
\* samples.
C15_NoEmptySuccess ==
    \A n \in 1..Len(adjust_returns) :
        adjust_returns[n].success => adjust_returns[n].written > 0

\* fitting was skipped, or the fit failed
NotFitted ==
    \/ adjust_returns = <<>>
    \/ ~adjust_returns[1].success

\* C16: when fitting is skipped or fails for a segment whose synthesis
\* succeeded, _generate_segment_audio returns success with
\* final_audio_file the raw clip's file.
C16_FallbackToRaw ==
    (fpc = "returned" /\ NotFitted) =>
        /\ segment_result.success
        /\ segment_result.final_audio_file = segment_result.raw_audio_file

\* a fit that was tried and failed on a source of no duration
C16_Witness ==
    /\ fpc = "returned"
    /\ Len(adjust_returns) = 1
    /\ adjust_returns[1].outcome = "Invalid duration"
    /\ raw_frames = 0
    /\ segment_result.success
    /\ segment_result.final_audio_file = "raw"

\* C17: a failed write of the raw clip in _save_wave_file is visible to
\* _generate_segment_audio: no segment is reported successful with its raw
\* file unwritten.
C17_RawWriteFailureReported ==
    (fpc = "returned" /\ segment_result.success) => raw_frames # NoFile

\* ------------------------------------------------------------------ C18
\* C18: when process_video has returned and the work of a stage has
\* failed, the result has success = False, error_message names the stage
\* that failed first and error_details is that stage's diagnostic.
C18_FirstFailureReported ==
    (ppc = "returned" /\ failed_first # "none") =>
        /\ ~pipeline_result.success
        /\ pipeline_result.error_message = StageMessage(failed_first)
        /\ pipeline_result.error_details = Diagnostic(failed_first)

\* ------------------------------------------------------------------ C19
\* input segments minus the segments that got a clip
Dropped == total_segments - Len(generated_segments)

\* C19: when some but not all segments fail, generate_audio_from_transcript
\* returns success with a non-empty final_audio_path, and the count its
\* result carries is the number of dropped segments.
C19_PartialFailureReported ==
    (result.returned /\ 0 < Dropped /\ Dropped < total_segments) =>
        /\ result.success
        /\ result.final_audio_path # ""
        /\ result.total_segments = Dropped

\* ------------------------------------------------------------------ C20
\* C20: once a speaker_id has a voice in speaker_voice_mapping, no step of
\* assign_voice_to_speaker or get_speaker_voices changes or removes it.
C20_AssignedOnce ==
    [][\A s \in DOMAIN speaker_voice_mapping :
           /\ s \in DOMAIN speaker_voice_mapping'
           /\ speaker_voice_mapping'[s] = speaker_voice_mapping[s]]_allvars

\* a speaker with a voice was assigned again, in a later call, and got the
\* voice it had
C20_Witness ==
    /\ calls > 1
    /\ last_assign.speaker_id \in DOMAIN speaker_voice_mapping
    /\ last_assign.returned = speaker_voice_mapping[last_assign.speaker_id]

\* ------------------------------------------------------------------ C21
\* the voices some speaker has
TakenVoices ==
    {speaker_voice_mapping[s] : s \in DOMAIN speaker_voice_mapping}

\* the voices SPEAKER_STYLES lists with this gender
VoicesOfGender(g) ==
    {name \in DOMAIN SPEAKER_STYLES : SPEAKER_STYLES[name] = g}

\* the speaker the loop of get_speaker_voices stands at
CurrentGender ==
    IF speakers_info[speaker_index].gender = "Female" THEN "female"
    ELSE speakers_info[speaker_index].gender

\* C21: in get_speaker_voices a speaker is given a voice another speaker
\* has only if every voice of its gender was taken at that moment; and a
\* speaker whose gender pool is exhausted or matches no voice still gets a
\* voice of the full list.
C21_ShareOnlyWhenExhausted ==
    [][(vpc = "for speaker" /\ speaker_index' = speaker_index + 1) =>
          /\ speakers_info[speaker_index].speaker_id
                 \in DOMAIN speaker_voice_mapping'
          /\ \A s \in DOMAIN speaker_voice_mapping'
                      \ DOMAIN speaker_voice_mapping :
                 /\ speaker_voice_mapping'[s] \in DOMAIN SPEAKER_STYLES
                 /\ speaker_voice_mapping'[s] \in TakenVoices =>
                        VoicesOfGender(CurrentGender) \subseteq TakenVoices
      ]_allvars

\* six men: the sixth shares a voice with one of the five before him
C21_Witness ==
    /\ vpc = "ready"
    /\ Cardinality(DOMAIN speaker_voice_mapping) = MaxCast
    /\ \A n \in 1..MaxCast : speakers_info[n].gender = "male"
    /\ VoicesOfGender("male") \subseteq TakenVoices
    /\ \E s \in DOMAIN speaker_voice_mapping :
           /\ s # "Speaker 6"
           /\ speaker_voice_mapping[s] = speaker_voice_mapping["Speaker 6"]

\* ------------------------------------------------------------------ C22
\* the speakers of the session's speaker profiles
SessionSpeakers ==
    {Strip(speakers_info[n].speaker_id) : n \in 1..Len(speakers_info)}

\* C22: the voice table a session uses holds the speakers of that session
\* only: no speaker of an earlier session on the same AudioGenerator is in
\* it.
C22_TablePerSession ==
    calls > 0 => DOMAIN speaker_voice_mapping \subseteq SessionSpeakers

\* ------------------------------------------------------------------ C23
\* the clips of the list passed, whatever their order
ClipSet == {segments_arg[n] : n \in 1..Len(segments_arg)}

RECURSIVE TrackFrom(_, _, _)
\* the track of a set of clips: the clip of least segment_index next
TrackFrom(rest, track, cursor) ==
    IF rest = {} THEN track
    ELSE LET seg == CHOOSE c \in rest :
                        \A d \in rest : c.segment_index <= d.segment_index
             start_time_ms == time_to_milliseconds(seg.start_time)
             segment_ms == LengthOf(seg.final_audio_file)
         IN  TrackFrom(rest \ {seg},
                       track \o GapSilence(start_time_ms, cursor)
                             \o <<Clip(seg.segment_index, segment_ms)>>,
                       NextEndTime(start_time_ms, segment_ms))

\* C23: the track _combine_audio_segments exports depends on the set of
\* clips only: whatever the order of the list, it is the sequence of
\* silences and clips obtained by taking the clips in ascending
\* segment_index.
C23_OrderOfListIrrelevant ==
    (pc = "done" /\ combine_exit = "ok") =>
        combined_audio = TrackFrom(ClipSet, <<>>, 0)

\* three clips passed in descending segment_index
C23_Witness ==
    /\ pc = "done" /\ combine_exit = "ok"
    /\ Len(segments_arg) = MaxClips
    /\ \A n \in 1..(Len(segments_arg) - 1) :
           segments_arg[n].segment_index > segments_arg[n + 1].segment_index
    /\ Cardinality(ClipPositions) = MaxClips

\* ------------------------------------------------------------------ C24
\* parsed start_time of the clip at position p of the track
StartOfClipAt(p) ==
    time_to_milliseconds(
        (CHOOSE c \in ClipSet : c.segment_index = combined_audio[p].idx)
            .start_time)

\* C24: in the track the clips appear in non-decreasing order of their
\* start_time.
C24_ClipsInStartOrder ==
    (pc = "done" /\ combine_exit = "ok") =>
        \A p, q \in ClipPositions :
            p < q => StartOfClipAt(p) <= StartOfClipAt(q)

\* ------------------------------------------------------------------ C27
\* C27: the write cursor last_end_time never decreases from one clip to the
\* next.
C27_CursorMonotonic ==
    [][pc = "combine" => last_end_time' >= last_end_time]_allvars

\* ------------------------------------------------------------------ C25
\* the positive multiples of N among the segments processed so far
MultiplesDone ==
    {j \in 0..(i - 1) : \E m \in 1..i : j = m * PaceEvery}

\* C25: a pause is taken before segment i exactly when i is a positive
\* multiple of N = 20; so never before the first segment, and never more
\* than N segments, nor more than N speech requests, since the last pause.
C25_PausedEveryN ==
    /\ paused_before = MultiplesDone
    /\ 0 \notin paused_before
    /\ since_pause <= PaceEvery
    /\ requests_since_pause <= since_pause
    /\ pauses = Cardinality(paused_before)

\* 41 segments: pauses before segments 20 and 40, every segment a request
C25_Witness ==
    /\ i = 41
    /\ paused_before = {20, 40}
    /\ since_pause = 1
    /\ requests_since_pause = 1

\* ------------------------------------------------------------------ C26
\* C26: a segment whose speaker_id has no assigned voice yields no clip.
C26_UnresolvedSpeakerDropped ==
    (vpc = "segments"
       /\ voiced_segment.speaker \notin DOMAIN speaker_voice_mapping)
        => ~voiced_segment.success

\* ------------------------------------------------------------------ C28
\* C28: assign_voice_to_speaker returns the voice recorded in
\* speaker_voice_mapping for the speaker, on the call that makes the
\* assignment as on later calls.
C28_ReturnsRecordedVoice ==
    last_assign.speaker_id \in DOMAIN speaker_voice_mapping =>
        last_assign.returned = speaker_voice_mapping[last_assign.speaker_id]

====
